---- MODULE Spec2Model ----
(***************************************************************************)
(* Battleships: the targeting state machine (strategy/strategy.py, class   *)
(* Strategy) and the ship placement search (board_setup/board_setup.py,    *)
(* class BoardSetup).                                                      *)
(*                                                                         *)
(* Coordinates are pairs <<x, y>>, x the column and y the row, 0-indexed.  *)
(* Python lists are sequences here, so list index i is sequence index i+1; *)
(* the 2D grids are kept as functions [row -> [column -> value]] over      *)
(* 0..rows-1 and 0..cols-1, read as grid[y][x] like the source.            *)
(***************************************************************************)
EXTENDS Integers, Sequences, FiniteSets, TLC

\* ------------------------------------------------------------------ bounds
\* The grids: at most MaxRows rows, MaxCols columns and MaxCells cells.
MaxRows == 3
MaxCols == 4
MaxCells == 6
\* Number of public calls made on one Strategy object by any caller.
MaxCalls == 3
\* Number of misses registered around the one ship of the convergence run.
MaxMisses == 2

VARIABLES
    \* ---- shared constructor arguments
    rows, cols,
    \* ---- Strategy fields (strategy.py 13-21)
    ships_dict, enemy_board, shots_fired, missed_shots,
    hit_queue, current_hits, available_shots,
    \* ---- the caller's view of the last call on either object
    call,        \* the last call: its name and arguments
    ret,         \* what the last call returned (register_attack: None)
    ncalls,      \* calls made so far
    result,      \* per coordinate: the last registered result
    \* ---- BoardSetup fields (board_setup.py 13-18)
    setup_ships_dict, board,
    \* ---- place_ships: where the call stands, and its locals
    pc,          \* "idle", "for", "while", "returned", "ValueError", "IndexError"
    item, unit,  \* position of the two for loops (lines 104-105)
    placed, attempts, positions,
    raised_for,  \* the ship_id an error was raised for
    \* ---- what the caller of BoardSetup knows
    instances,   \* the cells stamped for each ship instance since the last reset
    clean        \* the board was all water when the last place_ships began

strategy_vars == <<ships_dict, enemy_board, shots_fired, missed_shots,
                   hit_queue, current_hits, available_shots>>
caller_vars == <<call, ret, ncalls, result>>
setup_vars == <<setup_ships_dict, board, pc, item, unit, placed, attempts,
                positions, raised_for, instances, clean>>
vars == <<rows, cols, strategy_vars, caller_vars, setup_vars>>

\* ------------------------------------------------------------- helpers
\* Python None, as returned by get_random_shot (the empty tuple, so that it
\* compares with coordinates)
None == <<>>

Range(s) == {s[i] : i \in 1..Len(s)}

Min(S) == CHOOSE m \in S : \A n \in S : m <= n
Max(S) == CHOOSE m \in S : \A n \in S : m >= n

RECURSIVE SumOver(_, _)
\* sum of f[k] over k in S
SumOver(f, S) ==
    IF S = {} THEN 0
    ELSE LET k == CHOOSE k \in S : TRUE IN f[k] + SumOver(f, S \ {k})

\* [x for x in seq if x in S], order kept
FilterIn(seq, S) == SelectSeq(seq, LAMBDA c : c \in S)

Grid(r, c) == {<<x, y>> : x \in 0..(c - 1), y \in 0..(r - 1)}

\* <<rows, cols>> of the grids the objects are constructed with
Dims == {d \in (1..MaxRows) \X (1..MaxCols) : d[1] * d[2] <= MaxCells}

InBounds(c) == 0 <= c[1] /\ c[1] < cols /\ 0 <= c[2] /\ c[2] < rows

\* ------------------------------------------------------------ Strategy
\* Strategy.__init__
StrategyInit(r, c, census) ==
    /\ rows = r
    /\ cols = c
    /\ ships_dict = census
    /\ enemy_board = [y \in 0..(r - 1) |-> [x \in 0..(c - 1) |-> "?"]]
    /\ shots_fired = {}
    /\ missed_shots = {}
    /\ hit_queue = <<>>
    /\ current_hits = <<>>
    /\ available_shots = Grid(r, c)

\* candidates = [(x-1, y), (x+1, y), (x, y-1), (x, y+1)]
Orthogonal(x, y) == << <<x - 1, y>>, <<x + 1, y>>, <<x, y - 1>>, <<x, y + 1>> >>

\* Strategy.get_adjacent_cells
get_adjacent_cells(x, y, avail) ==
    SelectSeq(Orthogonal(x, y), LAMBDA c : InBounds(c) /\ c \in avail)

\* get_target_cells without the line extension: the neighbours of the latest
\* hit, however many hits there are
get_target_cells_AroundLastHit(hits, avail) ==
    get_adjacent_cells(hits[Len(hits)][1], hits[Len(hits)][2], avail)

\* Strategy.get_target_cells, on current_hits = hits (non-empty)
get_target_cells(hits, avail) ==
    IF Len(hits) = 1
    THEN get_adjacent_cells(hits[1][1], hits[1][2], avail)
    ELSE LET xs == [i \in 1..Len(hits) |-> hits[i][1]]
             ys == [i \in 1..Len(hits) |-> hits[i][2]]
             targets ==
                 IF Cardinality(Range(xs)) = 1
                 THEN << <<xs[1], Min(Range(ys)) - 1>>, <<xs[1], Max(Range(ys)) + 1>> >>
                 ELSE << <<Min(Range(xs)) - 1, ys[1]>>, <<Max(Range(xs)) + 1, ys[1]>> >>
         IN  FilterIn(targets, avail)

\* identify_sunk_ship with the ship size taken before the sinking hit was
\* appended to current_hits
identify_sunk_ship_BeforeAppend(dict, hits) ==
    LET ship_size == Len(hits) - 1
    IN  IF ship_size \in DOMAIN dict /\ dict[ship_size] > 0
        THEN [dict EXCEPT ![ship_size] = @ - 1]
        ELSE dict

\* identify_sunk_ship without the test that the count is positive
identify_sunk_ship_Unchecked(dict, hits) ==
    LET ship_size == Len(hits)
    IN  IF ship_size \in DOMAIN dict
        THEN [dict EXCEPT ![ship_size] = @ - 1]
        ELSE dict

\* Strategy.identify_sunk_ship: the census after it
identify_sunk_ship(dict, hits) ==
    LET ship_size == Len(hits)
    IN  IF ship_size \in DOMAIN dict /\ dict[ship_size] > 0
        THEN [dict EXCEPT ![ship_size] = @ - 1]
        ELSE dict

\* The cells Strategy.mark_surrounding_cells touches: the in-bounds
\* orthogonal neighbours of every cell of current_hits.
SurroundingCells(hits) ==
    {n \in UNION {Range(Orthogonal(h[1], h[2])) : h \in Range(hits)} : InBounds(n)}

\* mark_surrounding_cells around the last hit only
mark_surrounding_avail_LastHit(hits, avail) ==
    avail \ SurroundingCells(<<hits[Len(hits)]>>)

\* Strategy.mark_surrounding_cells: available_shots after it
mark_surrounding_avail(hits, avail) == avail \ SurroundingCells(hits)

\* mark_surrounding_cells discarding the neighbours without marking them
mark_surrounding_board_Unmarked(hits, brd) == brd

\* Strategy.mark_surrounding_cells: enemy_board after it
mark_surrounding_board(hits, brd) ==
    [y \in DOMAIN brd |-> [x \in DOMAIN brd[y] |->
        IF <<x, y>> \in SurroundingCells(hits) THEN "M" ELSE brd[y][x]]]

\* register_attack without the discard of the shot
DiscardShot_Kept(avail, x, y) == avail

\* self.available_shots.discard((x, y))
DiscardShot(avail, x, y) == avail \ {<<x, y>>}

\* self.enemy_board[y][x] = 'H' if is_hit else 'M'
MarkShot(brd, x, y, is_hit) ==
    [brd EXCEPT ![y][x] = IF is_hit THEN "H" ELSE "M"]

\* Strategy.all_ships_sunk
all_ships_sunk == \A k \in DOMAIN ships_dict : ships_dict[k] = 0

\* Strategy.register_attack
RegisterAttack(x, y, is_hit, is_sunk) ==
    LET avail1 == DiscardShot(available_shots, x, y)
        board1 == MarkShot(enemy_board, x, y, is_hit)
        hits1  == Append(current_hits, <<x, y>>)
    IN  /\ shots_fired' = shots_fired \cup {<<x, y>>}
        /\ IF ~is_hit
           THEN /\ missed_shots' = missed_shots \cup {<<x, y>>}
                /\ available_shots' = avail1
                /\ enemy_board' = board1
                /\ UNCHANGED <<ships_dict, hit_queue, current_hits>>
           ELSE IF is_sunk
           THEN /\ ships_dict' = identify_sunk_ship(ships_dict, hits1)
                /\ available_shots' = mark_surrounding_avail(hits1, avail1)
                /\ enemy_board' = mark_surrounding_board(hits1, board1)
                /\ hit_queue' = <<>>
                /\ current_hits' = <<>>
                /\ UNCHANGED missed_shots
           ELSE /\ hit_queue' = hit_queue \o get_target_cells(hits1, avail1)
                /\ current_hits' = hits1
                /\ available_shots' = avail1
                /\ enemy_board' = board1
                /\ UNCHANGED <<ships_dict, missed_shots>>

\* get_random_shot without the test for no shot left: random.choice of an
\* empty tuple returns nothing
get_random_shot_Unchecked == available_shots

\* Strategy.get_random_shot: the values random.choice may return
get_random_shot == IF available_shots = {} THEN {None} ELSE available_shots

\* Strategy.get_next_attack, returning r
GetNextAttack(r) ==
    IF hit_queue # <<>>
    THEN /\ r = Head(hit_queue)
         /\ hit_queue' = Tail(hit_queue)
         /\ UNCHANGED <<ships_dict, enemy_board, shots_fired, missed_shots,
                        current_hits, available_shots>>
    ELSE /\ r \in get_random_shot
         /\ UNCHANGED strategy_vars

\* ---------------------------------------------------------- BoardSetup
\* attempts = 2000 (place_ships, per ship instance)
Attempts == 2000

\* The shape table of place_ships: ship_id -> list of (dx, dy)
shapes ==
    (1 :> << <<0, 0>>, <<0, 1>> >>) @@
    (2 :> << <<0, 0>>, <<0, 1>>, <<0, 2>> >>) @@
    (3 :> << <<0, 0>>, <<0, 1>>, <<0, 2>>, <<0, 3>> >>) @@
    (4 :> << <<0, 0>>, <<0, 1>>, <<0, 2>>, <<1, 1>> >>) @@
    (5 :> << <<0, 0>>, <<1, 0>>, <<2, 0>>, <<2, 1>> >>) @@
    (6 :> << <<0, 0>>, <<0, 1>>, <<1, 1>>, <<1, 2>> >>) @@
    (7 :> << <<0, 0>>, <<0, 1>>, <<0, 2>>, <<0, 3>>, <<1, 1>>, <<1, 2>> >>)

\* shapes.get(ship_id, [(0, 0)])
ShapeOf(ship_id) ==
    IF ship_id \in DOMAIN shapes THEN shapes[ship_id] ELSE << <<0, 0>> >>

\* place_ships.mirror
mirror(shape) ==
    LET min_x == Min({shape[i][1] : i \in 1..Len(shape)})
    IN  [i \in 1..Len(shape) |-> <<shape[i][1] - min_x, -shape[i][2]>>]

\* place_ships.rotate
rotate(shape) ==
    LET min_x == Min({shape[i][1] : i \in 1..Len(shape)})
        min_y == Min({shape[i][2] : i \in 1..Len(shape)})
    IN  [i \in 1..Len(shape) |-> <<shape[i][2] - min_y, -shape[i][1] + min_x>>]

\* the loops dropping what rotate returns: only the shape and its mirror are
\* ever tried
Orientations_NeverRotated(shape) ==
    LET m0 == mirror(shape)
    IN  <<shape, shape, shape, shape, m0, m0, m0, m0>>

\* The shapes one anchor is tried with, in the order of the two nested loops
\* of lines 115-125: the shape and its three rotations, then the mirror of
\* the four times rotated shape and its three rotations.
Orientations(shape) ==
    LET r1 == rotate(shape)
        r2 == rotate(r1)
        r3 == rotate(r2)
        m0 == mirror(rotate(r3))
        m1 == rotate(m0)
        m2 == rotate(m1)
        m3 == rotate(m2)
    IN  <<shape, r1, r2, r3, m0, m1, m2, m3>>

\* The absolute cells of ship_shape anchored at (x, y)
CellsAt(x, y, ship_shape) ==
    {<<x + ship_shape[i][1], y + ship_shape[i][2]>> : i \in 1..Len(ship_shape)}

\* the neighbourhood without the diagonals
Adjacent8_NoDiagonals(c) ==
    {a \in {c} \cup Range(Orthogonal(c[1], c[2])) : InBounds(a)}

\* range(n - 1, n + 2) x range(m - 1, m + 2), cut to the board
Adjacent8(c) ==
    {a \in {<<ax, ay>> : ax \in (c[1] - 1)..(c[1] + 1), ay \in (c[2] - 1)..(c[2] + 1)} :
        InBounds(a)}

\* can_place_ship without the test that the cell is on the board
can_place_ship_NoBounds(x, y, ship_shape) ==
    \A c \in CellsAt(x, y, ship_shape) :
        /\ InBounds(c) => board[c[2]][c[1]] = 0
        /\ \A a \in Adjacent8(c) : board[a[2]][a[1]] = 0

\* place_ships.can_place_ship
can_place_ship(x, y, ship_shape) ==
    \A c \in CellsAt(x, y, ship_shape) :
        /\ InBounds(c)
        /\ board[c[2]][c[1]] = 0
        /\ \A a \in Adjacent8(c) : board[a[2]][a[1]] = 0

\* A Python list index: a negative index counts from the end.
PyIndex(i, n) == IF i < 0 THEN i + n ELSE i

\* for dx, dy in ship_shape: self.board[y + dy][x + dx] = ship_id
Stamp(brd, x, y, ship_shape, ship_id) ==
    [by \in DOMAIN brd |-> [bx \in DOMAIN brd[by] |->
        IF \E c \in CellsAt(x, y, ship_shape) :
              PyIndex(c[1], cols) = bx /\ PyIndex(c[2], rows) = by
        THEN ship_id
        ELSE brd[by][bx]]]

\* [[0 for _ in range(cols)] for _ in range(rows)]
Water(r, c) == [y \in 0..(r - 1) |-> [x \in 0..(c - 1) |-> 0]]

\* BoardSetup.__init__; the locals of place_ships have no value yet
SetupInit(r, c, census) ==
    /\ setup_ships_dict = census
    /\ board = Water(r, c)
    /\ pc = "idle"
    /\ item = 0
    /\ unit = 0
    /\ placed = FALSE
    /\ attempts = 0
    /\ positions = {}
    /\ raised_for = 0
    /\ instances = <<>>
    /\ clean = TRUE

\* place_ships is entered: the for loop of line 104 starts
CallPlaceShips ==
    /\ pc \in {"idle", "returned", "ValueError", "IndexError"}
    /\ pc' = "for"
    /\ item' = 1
    /\ unit' = 0
    /\ raised_for' = 0
    /\ clean' = (board = Water(rows, cols))
    /\ call' = [op |-> "place_ships"]
    /\ ret' = None
    /\ UNCHANGED <<rows, cols, strategy_vars, ncalls, result, setup_ships_dict,
                   board, placed, attempts, positions, instances>>

\* line 104: the dict has no further item, place_ships returns
ForReturn ==
    /\ pc = "for"
    /\ item > Len(setup_ships_dict)
    /\ pc' = "returned"
    /\ UNCHANGED <<rows, cols, strategy_vars, caller_vars, setup_ships_dict,
                   board, item, unit, placed, attempts, positions, raised_for,
                   instances, clean>>

\* line 105: range(count) is used up, on to the next item of the dict
ForNextItem ==
    /\ pc = "for"
    /\ item <= Len(setup_ships_dict)
    /\ unit >= setup_ships_dict[item][2]
    /\ item' = item + 1
    /\ unit' = 0
    /\ UNCHANGED <<rows, cols, strategy_vars, caller_vars, setup_ships_dict,
                   board, pc, placed, attempts, positions, raised_for,
                   instances, clean>>

\* lines 106-108: one more ship instance; generate_random_positions gives a
\* permutation of all positions, of which pop() takes the last: the list is
\* kept as the set of positions not popped yet, any of which may come next.
ForStartInstance ==
    /\ pc = "for"
    /\ item <= Len(setup_ships_dict)
    /\ unit < setup_ships_dict[item][2]
    /\ placed' = FALSE
    /\ attempts' = Attempts
    /\ positions' = Grid(rows, cols)
    /\ pc' = "while"
    /\ UNCHANGED <<rows, cols, strategy_vars, caller_vars, setup_ships_dict,
                   board, item, unit, raised_for, instances, clean>>

\* The first of the eight shapes that can be placed at (x, y), or 0
FirstFit(x, y, ship_id) ==
    LET os == Orientations(ShapeOf(ship_id))
        fits == {i \in 1..Len(os) : can_place_ship(x, y, os[i])}
    IN  IF fits = {} THEN 0 ELSE Min(fits)

\* lines 110-127: one pass of the while loop with a position left to pop
WhileTry ==
    /\ pc = "while"
    /\ ~placed /\ attempts > 0
    /\ \E p \in positions :
          LET ship_id == setup_ships_dict[item][1]
              fit == FirstFit(p[1], p[2], ship_id)
              ship_shape == Orientations(ShapeOf(ship_id))[fit]
          IN  /\ positions' = positions \ {p}
              /\ IF fit # 0
                 THEN /\ board' = Stamp(board, p[1], p[2], ship_shape, ship_id)
                      /\ instances' = Append(instances, CellsAt(p[1], p[2], ship_shape))
                      /\ placed' = TRUE
                 ELSE UNCHANGED <<board, instances, placed>>
    /\ attempts' = attempts - 1
    /\ UNCHANGED <<rows, cols, strategy_vars, caller_vars, setup_ships_dict,
                   pc, item, unit, raised_for, clean>>

\* the failing call undoing its own stamps before it raises
WhilePopEmpty_RollsBack ==
    /\ pc = "while"
    /\ ~placed /\ attempts > 0
    /\ positions = {}
    /\ pc' = "IndexError"
    /\ raised_for' = setup_ships_dict[item][1]
    /\ board' = Water(rows, cols)
    /\ UNCHANGED <<rows, cols, strategy_vars, caller_vars, setup_ships_dict,
                   item, unit, placed, attempts, positions, instances, clean>>

\* line 111: positions.pop() on the empty list raises IndexError
WhilePopEmpty ==
    /\ pc = "while"
    /\ ~placed /\ attempts > 0
    /\ positions = {}
    /\ pc' = "IndexError"
    /\ raised_for' = setup_ships_dict[item][1]
    /\ UNCHANGED <<rows, cols, strategy_vars, caller_vars, setup_ships_dict,
                   board, item, unit, placed, attempts, positions, instances,
                   clean>>

\* lines 110, 129-130: the while loop ends; ValueError unless placed.
\* attempts reaches 0 only after Attempts positions were popped, that is on
\* a board of at least Attempts cells.
WhileExit ==
    /\ pc = "while"
    /\ placed \/ attempts <= 0
    /\ IF placed
       THEN /\ pc' = "for"
            /\ unit' = unit + 1
            /\ UNCHANGED raised_for
       ELSE /\ pc' = "ValueError"
            /\ raised_for' = setup_ships_dict[item][1]
            /\ UNCHANGED unit
    /\ UNCHANGED <<rows, cols, strategy_vars, caller_vars, setup_ships_dict,
                   board, item, placed, attempts, positions, instances, clean>>

\* reset_board binding its new grid to a local name: self.board is kept
ResetBoard_KeepsBoard ==
    /\ pc \in {"idle", "returned", "ValueError", "IndexError"}
    /\ pc' = "idle"
    /\ call' = [op |-> "reset_board"]
    /\ ret' = None
    /\ UNCHANGED <<rows, cols, strategy_vars, ncalls, result, setup_ships_dict,
                   board, item, unit, placed, attempts, positions, raised_for,
                   instances, clean>>

\* BoardSetup.reset_board
ResetBoard ==
    /\ pc \in {"idle", "returned", "ValueError", "IndexError"}
    /\ board' = Water(rows, cols)
    /\ instances' = <<>>
    /\ pc' = "idle"
    /\ call' = [op |-> "reset_board"]
    /\ ret' = None
    /\ UNCHANGED <<rows, cols, strategy_vars, ncalls, result, setup_ships_dict,
                   item, unit, placed, attempts, positions, raised_for, clean>>

\* BoardSetup.board_stats, on the board brd of a BoardSetup whose
\* total_blocks is total
board_stats(brd, total) ==
    LET water == Cardinality({c \in Grid(rows, cols) : brd[c[2]][c[1]] = 0})
    IN  [empty_spaces |-> water, occupied_spaces |-> total - water]

\* line 16
total_blocks == rows * cols

\* get_tile without the checks below zero: Python indexes a list from its
\* end for -1 .. -len
get_tile_Wraps(x, y) ==
    IF x >= cols \/ y >= rows \/ x < -cols \/ y < -rows
    THEN [raises |-> "IndexError"]
    ELSE [returns |-> board[PyIndex(y, rows)][PyIndex(x, cols)]]

\* BoardSetup.get_tile: what the call does, a raise or a returned value
get_tile(x, y) ==
    IF (x < 0 \/ x >= cols) \/ (y < 0 \/ y >= rows)
    THEN [raises |-> "IndexError"]
    ELSE [returns |-> board[y][x]]

\* a caller asks for a tile, between two calls of place_ships or reset_board
CallGetTile ==
    /\ pc \in {"idle", "returned", "ValueError", "IndexError"}
    /\ \E x \in (-MaxCols)..MaxCols, y \in (-MaxRows)..MaxRows :
          /\ call' = [op |-> "get_tile", x |-> x, y |-> y]
          /\ ret' = get_tile(x, y)
    /\ UNCHANGED <<rows, cols, strategy_vars, ncalls, result, setup_vars>>

PlaceShips ==
    \/ CallPlaceShips
    \/ ForReturn
    \/ ForNextItem
    \/ ForStartInstance
    \/ WhileTry
    \/ WhilePopEmpty
    \/ WhileExit

\* The censuses a BoardSetup is constructed with: the items of the dict
\* ship_id -> count, in insertion order.
SetupCensuses ==
    { << <<1, 2>> >>,
      << <<4, 1>> >>,
      << <<8, 1>>, <<1, 1>> >>,
      << <<2, 1>>, <<8, 2>> >>,
      << <<5, 0>>, <<6, 1>> >>,
      << <<3, 1>> >>,
      << <<7, 1>> >> }

\* ------------------------------------------- Strategy under any caller
\* A caller that registers any in-bounds coordinate with any outcome.
CallRegisterAttack ==
    /\ ncalls < MaxCalls
    /\ \E c \in Grid(rows, cols), is_hit \in BOOLEAN, is_sunk \in BOOLEAN :
          /\ RegisterAttack(c[1], c[2], is_hit, is_sunk)
          /\ call' = [op |-> "register_attack", x |-> c[1], y |-> c[2],
                      is_hit |-> is_hit, is_sunk |-> is_sunk]
          /\ result' = [result EXCEPT ![c] = IF is_hit THEN "hit" ELSE "miss"]
    /\ ncalls' = ncalls + 1
    /\ ret' = None
    /\ UNCHANGED <<rows, cols, setup_vars>>

CallGetNextAttack ==
    /\ ncalls < MaxCalls
    /\ \E r \in Grid(rows, cols) \cup {None} :
          /\ GetNextAttack(r)
          /\ ret' = r
    /\ call' = [op |-> "get_next_attack"]
    /\ ncalls' = ncalls + 1
    /\ UNCHANGED <<rows, cols, result, setup_vars>>

CallerInit(r, c) ==
    /\ call = [op |-> "__init__"]
    /\ ret = None
    /\ ncalls = 0
    /\ result = [g \in Grid(r, c) |-> "none"]

\* The census of the Strategy under any caller: a size with a ship left, a
\* size with none left, a size with one ship, and sizes that are no key.
FreeCensus == (1 :> 1) @@ (2 :> 0) @@ (3 :> 1)

Init ==
    \E d \in Dims :
        /\ StrategyInit(d[1], d[2], FreeCensus)
        /\ CallerInit(d[1], d[2])
        /\ SetupInit(d[1], d[2], <<>>)

Next == CallRegisterAttack \/ CallGetNextAttack

Spec == Init /\ [][Next]_vars

\* --------------------------------- the attack loop, from any state
\* After MaxCalls calls by any caller the caller runs the attack loop on the
\* Strategy as it then is: get_next_attack, then register_attack of the
\* returned coordinate with any outcome, until get_next_attack returns None.
LoopGetNextAttack ==
    /\ ncalls = MaxCalls
    /\ call.op # "get_next_attack"
    /\ \E r \in Grid(rows, cols) \cup {None} :
          /\ GetNextAttack(r)
          /\ ret' = r
    /\ call' = [op |-> "get_next_attack"]
    /\ UNCHANGED <<rows, cols, ncalls, result, setup_vars>>

LoopRegisterAttack ==
    /\ ncalls = MaxCalls
    /\ call.op = "get_next_attack"
    /\ ret # None
    /\ \E is_hit \in BOOLEAN, is_sunk \in BOOLEAN :
          /\ RegisterAttack(ret[1], ret[2], is_hit, is_sunk)
          /\ call' = [op |-> "register_attack", x |-> ret[1], y |-> ret[2],
                      is_hit |-> is_hit, is_sunk |-> is_sunk]
          /\ result' = [result EXCEPT ![ret] = IF is_hit THEN "hit" ELSE "miss"]
    /\ ret' = None
    /\ UNCHANGED <<rows, cols, ncalls, setup_vars>>

NextLoop ==
    \/ CallRegisterAttack
    \/ CallGetNextAttack
    \/ LoopGetNextAttack
    \/ LoopRegisterAttack

\* The loop is the caller's while loop: a step of it that can be taken is
\* taken.
SpecLoop ==
    /\ Init
    /\ [][NextLoop]_vars
    /\ WF_vars(LoopGetNextAttack)
    /\ WF_vars(LoopRegisterAttack)

\* ----------------------------------------------------- BoardSetup alone
InitBoard ==
    \E d \in Dims, census \in SetupCensuses :
        /\ SetupInit(d[1], d[2], census)
        /\ StrategyInit(d[1], d[2], <<>>)
        /\ CallerInit(d[1], d[2])

NextBoard == PlaceShips \/ ResetBoard \/ CallGetTile

SpecBoard == InitBoard /\ [][NextBoard]_vars

\* --------------------------------- one known ship, hits in any order
\* The census {3: 1} and a board holding one straight 3-cell ship (ship 2
\* of the shape table, in any orientation that fits the grid).
ConvergeCensus == (3 :> 1)

TheShip == instances[1]

InitConverge ==
    \E d \in Dims, x \in 0..(MaxCols - 1), y \in 0..(MaxRows - 1), o \in 1..8 :
        LET ship_shape == Orientations(shapes[2])[o]
            cells == CellsAt(x, y, ship_shape)
        IN  /\ cells \subseteq Grid(d[1], d[2])
            /\ StrategyInit(d[1], d[2], ConvergeCensus)
            /\ CallerInit(d[1], d[2])
            /\ setup_ships_dict = << <<2, 1>> >>
            /\ board = [by \in 0..(d[1] - 1) |-> [bx \in 0..(d[2] - 1) |->
                           IF <<bx, by>> \in cells THEN 2 ELSE 0]]
            /\ pc = "returned"
            /\ item = 2
            /\ unit = 0
            /\ placed = TRUE
            /\ attempts = 0
            /\ positions = {}
            /\ raised_for = 0
            /\ instances = <<cells>>
            /\ clean = TRUE

\* register_attack of a hit on a cell of the ship not hit yet; is_sunk on
\* the hit that completes the ship
ConvergeHit ==
    /\ \E c \in TheShip \ shots_fired :
          LET is_sunk == TheShip \subseteq shots_fired \cup {c}
          IN  /\ RegisterAttack(c[1], c[2], TRUE, is_sunk)
              /\ call' = [op |-> "register_attack", x |-> c[1], y |-> c[2],
                          is_hit |-> TRUE, is_sunk |-> is_sunk]
              /\ result' = [result EXCEPT ![c] = "hit"]
    /\ ncalls' = ncalls + 1
    /\ ret' = None
    /\ UNCHANGED <<rows, cols, setup_vars>>

\* register_attack of a miss on a cell off the ship
ConvergeMiss ==
    /\ ncalls - Cardinality(TheShip \cap shots_fired) < MaxMisses
    /\ \E c \in Grid(rows, cols) \ TheShip :
          /\ RegisterAttack(c[1], c[2], FALSE, FALSE)
          /\ call' = [op |-> "register_attack", x |-> c[1], y |-> c[2],
                      is_hit |-> FALSE, is_sunk |-> FALSE]
          /\ result' = [result EXCEPT ![c] = "miss"]
    /\ ncalls' = ncalls + 1
    /\ ret' = None
    /\ UNCHANGED <<rows, cols, setup_vars>>

NextConverge == ConvergeHit \/ ConvergeMiss

SpecConverge == InitConverge /\ [][NextConverge]_vars

\* ------------------------------------- a game against a placed board
\* The censuses of the game's BoardSetup.
GameCensuses ==
    { << <<1, 1>> >>,
      << <<2, 1>> >>,
      << <<3, 1>> >>,
      << <<4, 1>> >>,
      << <<5, 1>> >>,
      << <<8, 1>>, <<1, 1>> >> }

RECURSIVE SizeCount(_, _)
\* how many ships of `size` cells the items of a BoardSetup census hold
SizeCount(items, size) ==
    IF items = <<>> THEN 0
    ELSE (IF Len(ShapeOf(Head(items)[1])) = size THEN Head(items)[2] ELSE 0)
         + SizeCount(Tail(items), size)

\* The Strategy's census of the same fleet: ship size -> count
SizeCensus(items) ==
    [size \in {Len(ShapeOf(items[i][1])) : i \in 1..Len(items)} |->
        SizeCount(items, size)]

\* The caller resolves a shot against the BoardSetup's grid.
IsHit(c) == board[c[2]][c[1]] # 0

\* The shot at c completes the ship instance that holds c.
IsSunk(c) ==
    \E i \in 1..Len(instances) :
        c \in instances[i] /\ instances[i] \subseteq shots_fired \cup {c}

InitGame ==
    \E d \in Dims, census \in GameCensuses :
        /\ SetupInit(d[1], d[2], census)
        /\ StrategyInit(d[1], d[2], SizeCensus(census))
        /\ CallerInit(d[1], d[2])

\* the board is set up by one place_ships call
GamePlaceShips ==
    \/ pc = "idle" /\ CallPlaceShips
    \/ ForReturn
    \/ ForNextItem
    \/ ForStartInstance
    \/ WhileTry
    \/ WhilePopEmpty
    \/ WhileExit

\* the attack loop asks the Strategy for the next shot ...
GameGetNextAttack ==
    /\ pc = "returned"
    /\ call.op # "get_next_attack"
    /\ \E r \in Grid(rows, cols) \cup {None} :
          /\ GetNextAttack(r)
          /\ ret' = r
    /\ call' = [op |-> "get_next_attack"]
    /\ UNCHANGED <<rows, cols, ncalls, result, setup_vars>>

\* ... and registers it with what the board says
GameRegisterAttack ==
    /\ pc = "returned"
    /\ call.op = "get_next_attack"
    /\ ret # None
    /\ RegisterAttack(ret[1], ret[2], IsHit(ret), IsSunk(ret))
    /\ call' = [op |-> "register_attack", x |-> ret[1], y |-> ret[2],
                is_hit |-> IsHit(ret), is_sunk |-> IsSunk(ret)]
    /\ result' = [result EXCEPT ![ret] = IF IsHit(ret) THEN "hit" ELSE "miss"]
    /\ ret' = None
    /\ UNCHANGED <<rows, cols, ncalls, setup_vars>>

NextGame == GamePlaceShips \/ GameGetNextAttack \/ GameRegisterAttack

SpecGame == InitGame /\ [][NextGame]_vars

\* ------------------------------------ rotate and mirror on the catalog
\* place_ships looks the shape of a ship up (line 112) and passes it through
\* rotate and mirror (lines 115-125); here the two are applied in any order,
\* the order of place_ships among them. ret is the shape last returned.
CatalogIds == 1..8

InitShapes ==
    \E ship_id \in CatalogIds :
        /\ SetupInit(1, 1, << <<ship_id, 1>> >>)
        /\ StrategyInit(1, 1, <<>>)
        /\ ncalls = 0
        /\ result = [g \in Grid(1, 1) |-> "none"]
        /\ call = [op |-> "shapes.get", ship_id |-> ship_id]
        /\ ret = ShapeOf(ship_id)

ApplyRotate ==
    /\ call' = [op |-> "rotate", shape |-> ret]
    /\ ret' = rotate(ret)
    /\ UNCHANGED <<rows, cols, strategy_vars, ncalls, result, setup_vars>>

ApplyMirror ==
    /\ call' = [op |-> "mirror", shape |-> ret]
    /\ ret' = mirror(ret)
    /\ UNCHANGED <<rows, cols, strategy_vars, ncalls, result, setup_vars>>

NextShapes == ApplyRotate \/ ApplyMirror

SpecShapes == InitShapes /\ [][NextShapes]_vars

\* ============================================================ claims
IsRegister(c) == c.op = "register_attack"
IsSinkingHit(c) == IsRegister(c) /\ c.is_hit /\ c.is_sunk

Chebyshev(a, b) ==
    LET dx == IF a[1] >= b[1] THEN a[1] - b[1] ELSE b[1] - a[1]
        dy == IF a[2] >= b[2] THEN a[2] - b[2] ELSE b[2] - a[2]
    IN  IF dx >= dy THEN dx ELSE dy

NonZeroCells == {c \in Grid(rows, cols) : board[c[2]][c[1]] # 0}

\* C1 (Spec): under any sequence of get_next_attack and register_attack
\* calls with in-bounds coordinates, no coordinate is in both available_shots
\* and shots_fired, and no step puts a coordinate back into available_shots.
C1_ShotExclusivity ==
    /\ [](available_shots \cap shots_fired = {})
    /\ [][available_shots' \subseteq available_shots]_vars

\* C1: a coordinate has left available_shots by being shot and another one
\* by the forced-miss exclusion around a sunk ship.
C1_Witness ==
    /\ shots_fired # {}
    /\ Grid(rows, cols) \ (available_shots \cup shots_fired) # {}

C3_FailsWithValueError ==
    pc \in {"ValueError", "IndexError"} =>
        pc = "ValueError" /\ raised_for = setup_ships_dict[item][1]

\* C4 (Spec): the opponent-model cell of every coordinate of shots_fired is
\* 'H' if the last result registered for it was a hit and 'M' if it was a
\* miss.
C4_ModelShowsLastResult ==
    \A c \in shots_fired :
        enemy_board[c[2]][c[1]] = IF result[c] = "hit" THEN "H" ELSE "M"

\* C5 (SpecConverge): with the census {3: 1} and the three cells of one
\* straight ship hit in any order, misses interleaved, all_ships_sunk() is
\* false and remaining_ships[3] is 1 before the third hit, and
\* all_ships_sunk() is true and remaining_ships[3] is 0 from the third hit on.
C5_Convergence ==
    IF Cardinality(TheShip \cap shots_fired) < 3
    THEN ~all_ships_sunk /\ ships_dict[3] = 1
    ELSE all_ships_sunk /\ ships_dict[3] = 0

\* C5: the ship is sunk by a hit on its middle cell (both ends were found
\* first), with misses registered on the way.
C5_Witness ==
    /\ all_ships_sunk
    /\ missed_shots # {}
    /\ IsSinkingHit(call)
    /\ \A c \in TheShip : Chebyshev(c, <<call.x, call.y>>) <= 1

\* C6 (SpecGame): when every shot is the one get_next_attack returned,
\* resolved against a board of placed catalog ships, all coordinates of
\* current_hits share the same x or all share the same y.
C6_HitsCollinear ==
    \/ Cardinality({current_hits[i][1] : i \in 1..Len(current_hits)}) <= 1
    \/ Cardinality({current_hits[i][2] : i \in 1..Len(current_hits)}) <= 1

\* C7 (Spec): a register_attack with is_hit and is_sunk leaves no in-bounds
\* orthogonal neighbour of a cell of current_hits (the registered cell
\* included) in available_shots.
C7_ForcedMissMarking ==
    [][IsSinkingHit(call') =>
        \A h \in Range(current_hits) \cup {<<call'.x, call'.y>>} :
            \A n \in Range(Orthogonal(h[1], h[2])) :
                InBounds(n) => n \notin available_shots']_vars

\* C7: a sinking hit was registered after an earlier hit, on another cell.
C7_Witness ==
    /\ IsSinkingHit(call)
    /\ ncalls = 2
    /\ Cardinality({c \in Grid(rows, cols) : result[c] = "hit"}) = 2

\* C8 (Spec): a register_attack with is_hit and is_sunk decrements by one
\* the census entry keyed by the length of current_hits (the registered hit
\* counted) if that key is present with a positive count, changes no other
\* entry, makes no count negative, and leaves hit_queue and current_hits
\* empty.
C8_SinkAttribution ==
    [][IsSinkingHit(call') =>
        LET size == Len(current_hits) + 1
        IN  /\ DOMAIN ships_dict' = DOMAIN ships_dict
            /\ \A k \in DOMAIN ships_dict :
                  /\ ships_dict'[k] =
                        IF k = size /\ ships_dict[k] > 0
                        THEN ships_dict[k] - 1
                        ELSE ships_dict[k]
                  /\ ships_dict'[k] >= 0
            /\ hit_queue' = <<>>
            /\ current_hits' = <<>>]_vars

\* C8: the third hit of a run sank the ship, and the census entry of size 3
\* went from 1 to 0.
C8_Witness ==
    /\ IsSinkingHit(call)
    /\ ncalls = 3
    /\ ships_dict[3] = 0

\* C9 (Spec): get_next_attack never fails; with a non-empty hit_queue it
\* removes and returns the front of the queue, otherwise it returns a member
\* of available_shots; it returns None exactly when hit_queue and
\* available_shots are both empty; it changes neither available_shots nor
\* shots_fired.
C9_GetNextAttack ==
    /\ [](ncalls < MaxCalls => ENABLED CallGetNextAttack)
    /\ [][call'.op = "get_next_attack" =>
            /\ IF hit_queue # <<>>
               THEN ret' = Head(hit_queue) /\ hit_queue' = Tail(hit_queue)
               ELSE /\ hit_queue' = <<>>
                    /\ available_shots # {} => ret' \in available_shots
            /\ ret' = None <=> (hit_queue = <<>> /\ available_shots = {})
            /\ available_shots' = available_shots
            /\ shots_fired' = shots_fired]_vars

\* C9: get_next_attack returned None after shots were registered.
C9_Witness ==
    /\ call.op = "get_next_attack"
    /\ ret = None
    /\ shots_fired # {}

\* The shape size the census counts for: the size in the shape table, 1 for
\* an identifier that is not in it.
ShapeSize(ship_id) ==
    CASE ship_id = 1 -> 2
      [] ship_id = 2 -> 3
      [] ship_id \in {3, 4, 5, 6} -> 4
      [] ship_id = 7 -> 6
      [] OTHER -> 1

\* C10 (SpecBoard): when place_ships has returned on a board that was all
\* water when it began, every stamped cell lies within [0, cols) x [0, rows)
\* and the number of non-zero cells is the sum over the census of count
\* times shape size.
C10_PlacementCount ==
    (pc = "returned" /\ clean) =>
        /\ \A i \in 1..Len(instances) : instances[i] \subseteq Grid(rows, cols)
        /\ Cardinality(NonZeroCells) =
              SumOver([i \in 1..Len(setup_ships_dict) |->
                          setup_ships_dict[i][2] * ShapeSize(setup_ships_dict[i][1])],
                      1..Len(setup_ships_dict))

\* C10: place_ships returned with a ship of the shape table and a ship whose
\* identifier is not in it.
C10_Witness ==
    /\ pc = "returned" /\ clean
    /\ setup_ships_dict = << <<8, 1>>, <<1, 1>> >>
    /\ Cardinality(NonZeroCells) = 3

RECURSIVE Expand(_)
\* The ship_id of every ship instance of a census, in the order place_ships
\* takes them.
Expand(items) ==
    IF items = <<>> THEN <<>>
    ELSE [k \in 1..Head(items)[2] |-> Head(items)[1]] \o Expand(Tail(items))

Failed == pc \in {"ValueError", "IndexError"}

\* C11 (SpecBoard): when place_ships has failed, the board holds exactly the
\* cells stamped for the instances placed so far, each with its ship_id; on a
\* board that was all water when the call began these are the instances that
\* precede the failing one in the census; ships_dict is never changed.
C11_NoRollback ==
    /\ [](Failed =>
            /\ NonZeroCells = UNION Range(instances)
            /\ clean =>
                 /\ Len(instances) < Len(Expand(setup_ships_dict))
                 /\ raised_for = Expand(setup_ships_dict)[Len(instances) + 1]
                 /\ \A i \in 1..Len(instances) : \A c \in instances[i] :
                        board[c[2]][c[1]] = Expand(setup_ships_dict)[i])
    /\ [][setup_ships_dict' = setup_ships_dict]_vars

\* C11: place_ships failed on its second or third instance, after stamping
\* the first.
C11_Witness ==
    /\ Failed /\ clean
    /\ instances # <<>>

\* C12 (SpecBoard): reset_board, called in any state between two calls,
\* leaves every cell water, so that board_stats reports rows * cols empty and
\* 0 occupied spaces; it leaves ships_dict alone, and a second reset_board
\* right after the first changes nothing.
C12_ResetBoard ==
    [][call'.op = "reset_board" =>
          /\ \A c \in Grid(rows, cols) : board'[c[2]][c[1]] = 0
          /\ board_stats(board', total_blocks) =
                 [empty_spaces |-> rows * cols, occupied_spaces |-> 0]
          /\ setup_ships_dict' = setup_ships_dict
          /\ call.op = "reset_board" => UNCHANGED vars]_vars

\* C12: the board has been reset after a place_ships that failed part-way.
C12_Witness ==
    /\ call.op = "reset_board"
    /\ raised_for # 0
    /\ NonZeroCells = {}

\* C13 (SpecBoard): get_tile(x, y) raises IndexError exactly when x or y is
\* outside the grid, negative coordinates included; otherwise it returns
\* board[y][x]; the board is as it was.
C13_GetTile ==
    [][call'.op = "get_tile" =>
          /\ board' = board
          /\ IF <<call'.x, call'.y>> \in Grid(rows, cols)
             THEN ret' = [returns |-> board[call'.y][call'.x]]
             ELSE ret' = [raises |-> "IndexError"]]_vars

\* C13: a tile left of column 0 was asked for on a board holding a ship, and
\* the call raised.
C13_Witness ==
    /\ call.op = "get_tile"
    /\ call.x = -1 /\ call.y \in 0..(rows - 1)
    /\ NonZeroCells # {}
    /\ ret = [raises |-> "IndexError"]

\* C13, the other branch: the tile of a ship was asked for and returned.
C13_WitnessShip ==
    /\ call.op = "get_tile"
    /\ <<call.x, call.y>> \in NonZeroCells
    /\ ret = [returns |-> board[call.y][call.x]]

\* C14 (SpecGame): when every registered shot is the coordinate that
\* get_next_attack returned, get_next_attack never returns a coordinate that
\* is already in shots_fired: no cell is shot a second time.
C14_NoCellShotTwice ==
    (call.op = "get_next_attack" /\ ret # None) => ret \notin shots_fired

\* The fleet holds straight-line ships only: the cells of every shape share
\* a row or share a column.
StraightFleet ==
    \A i \in 1..Len(setup_ships_dict) :
        LET ship_shape == ShapeOf(setup_ships_dict[i][1])
        IN  \/ Cardinality({c[1] : c \in Range(ship_shape)}) = 1
            \/ Cardinality({c[2] : c \in Range(ship_shape)}) = 1

\* C15 (SpecGame): with straight-line ships only and a census keyed by ship
\* length, at each sink len(current_hits) is the length of the ship that was
\* sunk, and all_ships_sunk() is true once the last ship of the fleet has
\* been sunk.
C15_SinkBookkeeping ==
    /\ [][(StraightFleet /\ IsSinkingHit(call') /\ call.op = "get_next_attack")
            => \E i \in 1..Len(instances) :
                   /\ <<call'.x, call'.y>> \in instances[i]
                   /\ Len(current_hits) + 1 = Cardinality(instances[i])]_vars
    /\ [](( /\ StraightFleet
            /\ pc = "returned"
            /\ \A i \in 1..Len(instances) : instances[i] \subseteq shots_fired
            /\ IsRegister(call))
          => all_ships_sunk)

\* A quarter turn and a reflection of a set of offsets, and the set moved
\* by t.
QuarterTurn(S) == {<<c[2], -c[1]>> : c \in S}
Reflect(S) == {<<-c[1], c[2]>> : c \in S}
MovedBy(S, t) == {<<c[1] + t[1], c[2] + t[2]>> : c \in S}

\* The eight orientations of the shape of ship_id: the four rotations of the
\* base shape and the four rotations of its mirror image.
EightOrientations(ship_id) ==
    LET base == Range(ShapeOf(ship_id))
        turns(S) == {S, QuarterTurn(S), QuarterTurn(QuarterTurn(S)),
                     QuarterTurn(QuarterTurn(QuarterTurn(S)))}
    IN  turns(base) \cup turns(Reflect(base))

\* cells is a valid placement on the board: inside the grid, on water, and
\* touching no occupied cell, diagonals included.
ValidPlacement(cells) ==
    /\ cells \subseteq Grid(rows, cols)
    /\ \A c \in cells : \A a \in Grid(rows, cols) :
           Chebyshev(a, c) <= 1 => board[a[2]][a[1]] = 0

\* Some orientation of the ship, moved anywhere, is a valid placement.
FitsSomewhere(ship_id) ==
    \E S \in EightOrientations(ship_id) :
        \E tx \in (-MaxCells)..(MaxCols + MaxCells),
           ty \in (-MaxCells)..(MaxRows + MaxCells) :
            ValidPlacement(MovedBy(S, <<tx, ty>>))

\* C16 (SpecBoard): on these boards of fewer than 2000 cells place_ships
\* fails for a ship instance only after every grid coordinate has been tried
\* as the anchor, and only if none of the eight orientations of the ship has
\* a valid placement anywhere on the board as it stands.
C16_ExhaustiveSearch ==
    Failed => /\ positions = {}
              /\ attempts = Attempts - rows * cols
              /\ ~FitsSomewhere(raised_for)

\* C16: place_ships failed for a ship that would fit the empty grid: the
\* instances stamped before it leave it no room.
C16_Witness ==
    /\ Failed
    /\ instances # <<>>
    /\ \E S \in EightOrientations(raised_for) : S \subseteq Grid(rows, cols)

\* The step is register_attack of a hit that does not sink.
NonSinkingHit == IsRegister(call') /\ call'.is_hit /\ ~call'.is_sunk

SameX(hits) == \A i \in 1..Len(hits) : hits[i][1] = hits[1][1]
SameY(hits) == \A i \in 1..Len(hits) : hits[i][2] = hits[1][2]

\* the cells of seq that are still available after the step, order kept
StillAvailable(seq) ==
    LET Open(c) == c \in available_shots'
    IN  SelectSeq(seq, Open)

\* The three lists of candidates a non-sinking hit can queue.
AroundTheHit(hits) ==
    LET x == hits[1][1]
        y == hits[1][2]
        InGrid(c) == c \in Grid(rows, cols)
    IN  StillAvailable(SelectSeq(
            << <<x - 1, y>>, <<x + 1, y>>, <<x, y - 1>>, <<x, y + 1>> >>, InGrid))
ColumnEnds(hits) ==
    LET ys == {hits[i][2] : i \in 1..Len(hits)}
    IN  StillAvailable(<< <<hits[1][1], Min(ys) - 1>>, <<hits[1][1], Max(ys) + 1>> >>)
RowEnds(hits) ==
    LET xs == {hits[i][1] : i \in 1..Len(hits)}
    IN  StillAvailable(<< <<Min(xs) - 1, hits[1][2]>>, <<Max(xs) + 1, hits[1][2]>> >>)

\* what the step appended to hit_queue
Appended == SubSeq(hit_queue', Len(hit_queue) + 1, Len(hit_queue'))

AppendsOnly ==
    /\ Len(hit_queue') >= Len(hit_queue)
    /\ SubSeq(hit_queue', 1, Len(hit_queue)) = hit_queue
    /\ Range(Appended) \subseteq Grid(rows, cols)

\* C17 as stated (Spec): a non-sinking hit appends to hit_queue exactly, in
\* order: with one hit, the in-bounds orthogonal neighbours (left, right, up,
\* down) that are available; with two or more hits sharing x, the available
\* ones of (x, min_y - 1), (x, max_y + 1); with two or more hits sharing y, the
\* available ones of (min_x - 1, y), (max_x + 1, y); every appended cell is in
\* bounds.
C17_AsStated ==
    [][NonSinkingHit =>
          /\ AppendsOnly
          /\ Len(current_hits') = 1 => Appended = AroundTheHit(current_hits')
          /\ (Len(current_hits') >= 2 /\ SameX(current_hits'))
                 => Appended = ColumnEnds(current_hits')
          /\ (Len(current_hits') >= 2 /\ SameY(current_hits'))
                 => Appended = RowEnds(current_hits')]_vars

\* C17 (Spec), amended: as stated, except that the row ends are what is
\* appended when two or more hits share y and do not all share x as well; when
\* the hits share both (one cell registered as a hit more than once) the
\* column ends are appended.
C17_AppendedTargets ==
    [][NonSinkingHit =>
          /\ AppendsOnly
          /\ Len(current_hits') = 1 => Appended = AroundTheHit(current_hits')
          /\ (Len(current_hits') >= 2 /\ SameX(current_hits'))
                 => Appended = ColumnEnds(current_hits')
          /\ (Len(current_hits') >= 2 /\ SameY(current_hits')
                                      /\ ~SameX(current_hits'))
                 => Appended = RowEnds(current_hits')]_vars

\* C17: a second hit next to the first in its row has queued a row end.
C17_Witness ==
    /\ IsRegister(call) /\ call.is_hit /\ ~call.is_sunk
    /\ Len(current_hits) = 2
    /\ SameY(current_hits) /\ ~SameX(current_hits)
    /\ hit_queue # <<>>
    /\ hit_queue[Len(hit_queue)][2] = current_hits[1][2]
    /\ hit_queue[Len(hit_queue)] \notin Range(current_hits)
    /\ hit_queue[Len(hit_queue)] \in available_shots

\* C18 (Spec): in every reachable state of Strategy a coordinate is in
\* available_shots if and only if its cell of enemy_board is '?': whatever
\* leaves available_shots, by a shot or by the exclusion around a sunk ship,
\* is marked 'H' or 'M', and no cell is marked while it stays available.
C18_AvailableIffUnknown ==
    /\ available_shots \subseteq Grid(rows, cols)
    /\ \A c \in Grid(rows, cols) :
           /\ c \in available_shots <=> enemy_board[c[2]][c[1]] = "?"
           /\ c \notin available_shots => enemy_board[c[2]][c[1]] \in {"H", "M"}

\* C18: a cell that was never shot has left available_shots around a sunk
\* ship, while another cell is still available.
C18_Witness ==
    /\ \E c \in Grid(rows, cols) :
           c \notin shots_fired /\ c \notin available_shots
    /\ available_shots # {}

\* get_next_attack has returned None: nothing is queued, nothing available.
Exhausted ==
    /\ call.op = "get_next_attack" /\ ret = None
    /\ hit_queue = <<>>
    /\ available_shots = {}

\* C19 (SpecLoop): the attack loop terminates: from whatever state the
\* earlier calls left, calling get_next_attack and registering the returned
\* coordinate with any hit/sunk outcome, again and again, leads to
\* get_next_attack returning None with hit_queue and available_shots empty,
\* re-queued coordinates notwithstanding.
C19_LoopTerminates == (ncalls = MaxCalls) ~> Exhausted

\* C19: the loop has ended with one cell registered as a hit more than once
\* in the run of hits that is still open.
C19_Witness ==
    /\ ncalls = MaxCalls
    /\ Exhausted
    /\ Len(current_hits) > Cardinality(Range(current_hits))

\* C20 (SpecShapes): rotate and mirror each return a shape whose minimum dx
\* and minimum dy are both 0, for every shape of the catalog and every shape
\* obtained from it by rotate and mirror.
C20_ReturnsNormalised ==
    call.op \in {"rotate", "mirror"} =>
        /\ Min({ret[i][1] : i \in 1..Len(ret)}) = 0
        /\ Min({ret[i][2] : i \in 1..Len(ret)}) = 0

====
